---- MODULE Spec2Model ----
(***************************************************************************)
(* MPQTT: the polling engine of src/src/main.rs as a sequential state      *)
(* machine.  One thread of control runs main(): bootstrap, init(), then    *)
(* the endless loop over update().  The inverter (Command Executor) and    *)
(* the MQTT client (Telemetry Sink) are the environment: every execute()   *)
(* and every publish() attempt returns Ok or Err nondeterministically.     *)
(***************************************************************************)
EXTENDS Integers, Sequences, FiniteSets, TLC

(* ---------------- bounds of the model ---------------- *)
MaxInnerIterations == 2
MaxInverterCount == 3
MaxPasses == 2

(* ---------------- program constants ---------------- *)
\* `for _ in 0..5` of publish_update / publish_error / clear_error
PublishAttempts == 5
\* the largest index the dispatch `match index` of update() implements
MaxQpgsIndex == 9
\* Duration::from_secs(n) counted in the unit of Instant::elapsed().as_millis()
MillisPerSec == 1000

(* ---------------- inputs: the Settings of settings.rs ---------------- *)
Modes == {"phocos", "default"}
InnerDelays == {1}
OuterDelays == {5}
ErrorDelays == {3}
\* what one inverter.execute() adds to the clock, in ms; the inverter answers
\* at one speed throughout a pass
CmdMs == {0, 1}

\* inverter_count: u8; the small counts, and the last one `match index` has an arm for
InverterCounts == (0..MaxInverterCount) \cup {MaxQpgsIndex}

Settings ==
    [debug : BOOLEAN,
     outer_delay : OuterDelays,
     inner_delay : InnerDelays,
     error_delay : ErrorDelays,
     inverter_count : InverterCounts,
     inner_iterations : 0..MaxInnerIterations,
     mode : Modes]

VARIABLES
    settings,     \* the loaded Settings, read-only
    pc,           \* position of the single thread of control
    ret,          \* where the publish function in progress returns to
    iter,         \* inner iterations the `for _ in 0..inner_iterations` has yielded
    index,        \* next value of `for index in start_index..=inverter_count`
    outer_start,  \* Instant taken at the start of update()
    inner_start,  \* Instant taken at the start of an inner iteration
    inner_time,   \* inner_start.elapsed().as_millis()
    outer_time,   \* outer_start.elapsed().as_millis()
    now,          \* the monotonic clock, in ms
    latency,      \* ms the inverter takes per command during the current pass
    msg,          \* the PublishOpts of the publish function in progress
    attempts,     \* mqtt_client.publish() calls made by the current/last publish function
    delivered,    \* how many of them returned Ok
    result,       \* what the last update()/init() returned: "none", "Ok", "Err"
    error,        \* the error carried by an Err result
    exit_status,  \* -1 while the process runs, else its exit status
    trace,        \* history: events since the last call of update()
    passes,       \* history: calls of update() so far
    lastResult,   \* history: what the previous update() returned
    stats         \* history: the durations (ms) the Stats of the current pass reported

vars == <<settings, pc, ret, iter, index, outer_start, inner_start, inner_time,
          outer_time, now, latency, msg, attempts, delivered, result, error, exit_status,
          trace, passes, lastResult, stats>>

locals == <<iter, index, outer_start, inner_start, inner_time, outer_time>>
pubvars == <<msg, attempts, delivered, ret>>
hist == <<passes, lastResult, stats>>

(* ---------------- events of the history ---------------- *)
\* k: "cmd" | "pub" | "sleep";  n: command / topic suffix / delay field;
\* p: "ok"/"err" for a command, the payload body for a publish;  s: seconds slept
Ev(k, n, p, s) == [k |-> k, n |-> n, p |-> p, s |-> s]
CmdEv(cmd, ok) == Ev("cmd", cmd, IF ok THEN "ok" ELSE "err", 0)
PubEv(topic, body) == Ev("pub", topic, body, 0)
SleepEv(field, secs) == Ev("sleep", field, "", secs)

\* serde_json::to_string of a decoded record / of Stats { update_duration }
Payload(body, duration) == [body |-> body, update_duration |-> duration]
NoMsg == [topic |-> "", payload |-> Payload("", 0)]

Digits == <<"0", "1", "2", "3", "4", "5", "6", "7", "8", "9">>
\* format!("qpgs{}", index)
QpgsTopic(i) == "qpgs" \o Digits[i + 1]
\* the command type the `match index` dispatches to
QpgsCommand(i) == "QPGS" \o Digits[i + 1]

Init ==
    /\ settings \in Settings
    /\ pc = "main_settings"
    /\ ret = ""
    /\ iter = 0
    /\ index = 0
    /\ outer_start = 0
    /\ inner_start = 0
    /\ inner_time = 0
    /\ outer_time = 0
    /\ now = 0
    /\ latency \in CmdMs
    /\ msg = NoMsg
    /\ attempts = 0
    /\ delivered = 0
    /\ result = "none"
    /\ error = ""
    /\ exit_status = -1
    /\ trace = <<>>
    /\ passes = 0
    /\ lastResult = "none"
    /\ stats = <<>>

(* ---------------- helpers ---------------- *)
\* std::thread::sleep(Duration::from_secs(n)) is taken to last exactly n seconds.

\* the history gains the events, in order
Log(events) == trace' = trace \o events

\* std::process::exit(code), or main returning Err (status 1)
Exit(code) == /\ pc' = "exit"
              /\ exit_status' = code

\* todo!() / unimplemented!(): the thread panics, the process ends with 101
PanicStatus == 101

\* PublishOpts::new(format!("{}/{}", topic, command), value) and the entry
\* into the retry loop of publish_update / publish_error / clear_error
CallPublish(fn, topic, payload, r) ==
    /\ msg' = [topic |-> topic, payload |-> payload]
    /\ attempts' = 0
    /\ delivered' = 0
    /\ pc' = fn
    /\ ret' = r

\* positions of update() and of init() a publish_update returns to
UpdatePcs == {"update_qpgs", "update_inner_stats", "update_inner_sleep",
              "update_qpiws", "update_qpiri", "update_outer_stats",
              "update_outer_sleep"}
InitPcs == {"init_qpi", "init_qvfw", "init_done"}

\* the loop as it would be if it made one attempt only, whatever its outcome
LoopEndsFirstAttempt(ok, made) == TRUE
\* the loop as it would be without the `break`: all attempts are always made
LoopEndsNoBreak(ok, made) == made >= PublishAttempts
\* `Ok(()) => break`: the retry loop ends at the first Ok or after the last attempt
LoopEnds(ok, made) == ok \/ made >= PublishAttempts

\* the return value as it would be if exhausting the attempts were an error
PublishReturnEscalates(ok) == IF ok THEN "Ok" ELSE "Err"
\* the `Ok(())` all three publish functions return after the loop, whatever
\* the last attempt returned
PublishReturn(ok) == "Ok"

\* one turn of `for _ in 0..5 { match mqtt_client.publish(&msg).await {...} }`
\* and, when the loop ends, the return to the caller and the caller's `?`
PublishLoop(fn) ==
    /\ pc = fn
    /\ \E ok \in BOOLEAN :
        /\ attempts' = attempts + 1
        /\ delivered' = IF ok THEN delivered + 1 ELSE delivered
        /\ IF ~LoopEnds(ok, attempts + 1)
           THEN UNCHANGED <<pc, result, error, exit_status>>
           ELSE IF PublishReturn(ok) = "Ok"
                THEN /\ pc' = ret
                     /\ UNCHANGED <<result, error, exit_status>>
                ELSE \* the caller's `.await?` (update, init, main) or `match` (main loop)
                     CASE ret \in UpdatePcs ->
                            /\ pc' = "main_match"
                            /\ result' = "Err"
                            /\ error' = "publish"
                            /\ UNCHANGED exit_status
                       [] ret \in InitPcs ->
                            /\ pc' = "main_init"
                            /\ result' = "Err"
                            /\ error' = "publish"
                            /\ UNCHANGED exit_status
                       [] ret = "main_loop" ->
                            /\ pc' = "main_loop"
                            /\ UNCHANGED <<result, error, exit_status>>
                       [] OTHER ->
                            /\ Exit(1)
                            /\ UNCHANGED <<result, error>>
    /\ UNCHANGED <<settings, latency, ret, msg, locals, now, trace, hist>>

publish_update == PublishLoop("publish_update")
publish_error == PublishLoop("publish_error")
clear_error == PublishLoop("clear_error")

\* a command as it would be without the `?` on execute: its Err is logged and
\* the function goes on to the next step, publishing nothing for the command
ExecuteAndGoOn(cmd, topic, publishes, next) ==
    \E ok \in BOOLEAN :
        /\ now' = now + latency
        /\ UNCHANGED <<result, error>>
        /\ IF ok /\ publishes
           THEN /\ Log(<<CmdEv(cmd, TRUE), PubEv(topic, cmd)>>)
                /\ CallPublish("publish_update", topic, Payload(cmd, 0), next)
           ELSE /\ Log(<<CmdEv(cmd, ok)>>)
                /\ pc' = next
                /\ UNCHANGED pubvars

\* inverter.execute::<cmd>(()).await? followed, when `publishes`, by
\* publish_update(.., topic, serde_json::to_string(&value)?).await?
\* inside update(): Err returns from update() to the match of main's loop.
\* (to_string of a decoded record of plain fields has no Err case.)
ExecuteAndPublish(cmd, topic, publishes, next) ==
    \E ok \in BOOLEAN :
        /\ now' = now + latency
        /\ IF ok
           THEN /\ UNCHANGED <<result, error>>
                /\ IF publishes
                   THEN /\ Log(<<CmdEv(cmd, TRUE), PubEv(topic, cmd)>>)
                        /\ CallPublish("publish_update", topic, Payload(cmd, 0), next)
                   ELSE /\ Log(<<CmdEv(cmd, TRUE)>>)
                        /\ pc' = next
                        /\ UNCHANGED pubvars
           ELSE /\ Log(<<CmdEv(cmd, FALSE)>>)
                /\ pc' = "main_match"
                /\ result' = "Err"
                /\ error' = cmd
                /\ UNCHANGED pubvars

(* ---------------- main(): bootstrap ---------------- *)
\* let settings = match Settings::new() { Ok(..) => .., Err(e) => exit(1) }
main_settings ==
    /\ pc = "main_settings"
    /\ \E ok \in BOOLEAN :
        IF ok THEN pc' = "main_mqtt_build" /\ UNCHANGED exit_status
              ELSE Exit(1)
    /\ UNCHANGED <<settings, latency, locals, now, pubvars, result, error, trace, hist>>

\* builder...build(): Err => std::process::exit(0)
main_mqtt_build ==
    /\ pc = "main_mqtt_build"
    /\ \E ok \in BOOLEAN :
        IF ok THEN pc' = "main_mqtt_connect" /\ UNCHANGED exit_status
              ELSE Exit(0)
    /\ UNCHANGED <<settings, latency, locals, now, pubvars, result, error, trace, hist>>

\* mqtt_client.connect().await?
main_mqtt_connect ==
    /\ pc = "main_mqtt_connect"
    /\ \E ok \in BOOLEAN :
        IF ok THEN pc' = "main_discovery" /\ UNCHANGED exit_status
              ELSE Exit(1)
    /\ UNCHANGED <<settings, latency, locals, now, pubvars, result, error, trace, hist>>

\* run_mqtt_discovery(..).await?
main_discovery ==
    /\ pc = "main_discovery"
    /\ \E ok \in BOOLEAN :
        IF ok THEN pc' = "main_raw_open" /\ UNCHANGED exit_status
              ELSE Exit(1)
    /\ UNCHANGED <<settings, latency, locals, now, pubvars, result, error, trace, hist>>

\* raw_open(path): Ok => clear_error(..).await?, then init();
\* Err => publish_error(..).await?, then todo!()
main_raw_open ==
    /\ pc = "main_raw_open"
    /\ \E ok \in BOOLEAN :
        IF ok
        THEN /\ Log(<<PubEv("error", "")>>)
             /\ CallPublish("clear_error", "error", Payload("", 0), "init_qid")
             /\ UNCHANGED error
        ELSE /\ Log(<<PubEv("error", "raw_open")>>)
             /\ CallPublish("publish_error", "error", Payload("raw_open", 0), "main_todo")
             /\ error' = "raw_open"
    /\ UNCHANGED <<settings, latency, locals, now, result, exit_status, hist>>

\* todo!("implement retrying ...")
main_todo ==
    /\ pc = "main_todo"
    /\ Exit(PanicStatus)
    /\ UNCHANGED <<settings, latency, locals, now, pubvars, result, error, trace, hist>>

(* ---------------- init() ---------------- *)
\* a command of init() whose Err is returned by `?`
InitExecuteAndPublish(cmd, topic, next) ==
    \E ok \in BOOLEAN :
        /\ now' = now + latency
        /\ IF ok
           THEN /\ Log(<<CmdEv(cmd, TRUE), PubEv(topic, cmd)>>)
                /\ CallPublish("publish_update", topic, Payload(cmd, 0), next)
                /\ UNCHANGED <<result, error>>
           ELSE /\ Log(<<CmdEv(cmd, FALSE)>>)
                /\ pc' = "main_init"
                /\ result' = "Err"
                /\ error' = cmd
                /\ UNCHANGED pubvars

\* the identity query as it would be with `?`: its Err ends init()
init_qid_fatal ==
    /\ pc = "init_qid"
    /\ InitExecuteAndPublish("QID", "qid", "init_qpi")
    /\ UNCHANGED <<settings, latency, locals, exit_status, hist>>

\* QID: Ok => publish "qid"; Err => logged, init goes on
init_qid ==
    /\ pc = "init_qid"
    /\ \E ok \in BOOLEAN :
        /\ now' = now + latency
        /\ IF ok
           THEN /\ Log(<<CmdEv("QID", TRUE), PubEv("qid", "QID")>>)
                /\ CallPublish("publish_update", "qid", Payload("QID", 0), "init_qpi")
           ELSE /\ Log(<<CmdEv("QID", FALSE)>>)
                /\ pc' = "init_qpi"
                /\ UNCHANGED pubvars
    /\ UNCHANGED <<settings, latency, locals, result, error, exit_status, hist>>

init_qpi ==
    /\ pc = "init_qpi"
    /\ InitExecuteAndPublish("QPI", "qpi", "init_qvfw")
    /\ UNCHANGED <<settings, latency, locals, exit_status, hist>>

init_qvfw ==
    /\ pc = "init_qvfw"
    /\ InitExecuteAndPublish("QVFW", "qvfw", "init_done")
    /\ UNCHANGED <<settings, latency, locals, exit_status, hist>>

\* Ok(()) at the end of init()
init_done ==
    /\ pc = "init_done"
    /\ pc' = "main_init"
    /\ result' = "Ok"
    /\ UNCHANGED <<settings, latency, locals, now, pubvars, error, exit_status, trace, hist>>

\* if let Err(error) = init_res { publish_error(..).await?; todo!() }
main_init ==
    /\ pc = "main_init"
    /\ IF result = "Err"
       THEN /\ Log(<<PubEv("error", error)>>)
            /\ CallPublish("publish_error", "error", Payload(error, 0), "main_todo")
            /\ UNCHANGED result
       ELSE /\ pc' = "main_loop"
            /\ result' = "none"
            /\ UNCHANGED <<pubvars, trace>>
    /\ UNCHANGED <<settings, latency, locals, now, error, exit_status, hist>>

(* ---------------- main(): the update loop ---------------- *)
\* loop { match update(..).await { .. } }: the call of update().  Instants are
\* opaque and only their differences are read (elapsed()), so the origin of
\* the clock is moved to the call; the history starts a new record.
main_loop ==
    /\ pc = "main_loop"
    /\ passes < MaxPasses
    /\ pc' = "update"
    /\ passes' = passes + 1
    /\ lastResult' = result
    /\ result' = "none"
    /\ error' = ""
    /\ trace' = <<>>
    /\ stats' = <<>>
    /\ now' = 0
    /\ outer_start' = outer_start - now
    /\ inner_start' = inner_start - now
    /\ latency' \in CmdMs
    /\ UNCHANGED <<settings, iter, index, inner_time, outer_time, pubvars, exit_status>>

\* the match as it would be if the error arm slept before it published
main_match_sleep_first ==
    /\ pc = "main_match"
    /\ IF result = "Err"
       THEN /\ Log(<<SleepEv("error_delay", settings.error_delay), PubEv("error", error)>>)
            /\ now' = now + settings.error_delay * MillisPerSec
            /\ CallPublish("publish_error", "error", Payload(error, 0), "main_loop")
       ELSE /\ Log(<<PubEv("error", "")>>)
            /\ CallPublish("clear_error", "error", Payload("", 0), "main_loop")
            /\ UNCHANGED now
    /\ UNCHANGED <<settings, latency, locals, result, error, exit_status, hist>>

\* Err(error) => publish_error(..).await?  /  Ok(()) => match clear_error(..).await
main_match ==
    /\ pc = "main_match"
    /\ IF result = "Err"
       THEN /\ Log(<<PubEv("error", error)>>)
            /\ CallPublish("publish_error", "error", Payload(error, 0), "main_error_sleep")
       ELSE /\ Log(<<PubEv("error", "")>>)
            /\ CallPublish("clear_error", "error", Payload("", 0), "main_loop")
    /\ UNCHANGED <<settings, latency, locals, now, result, error, exit_status, hist>>

\* the error arm as it would be if it cleared the error channel after its sleep
main_error_sleep_then_clear ==
    /\ pc = "main_error_sleep"
    /\ Log(<<SleepEv("error_delay", settings.error_delay), PubEv("error", "")>>)
    /\ now' = now + settings.error_delay * MillisPerSec
    /\ CallPublish("clear_error", "error", Payload("", 0), "main_loop")
    /\ UNCHANGED <<settings, latency, locals, result, error, exit_status, hist>>

\* sleep(Duration::from_secs(settings.error_delay))
main_error_sleep ==
    /\ pc = "main_error_sleep"
    /\ Log(<<SleepEv("error_delay", settings.error_delay)>>)
    /\ now' = now + settings.error_delay * MillisPerSec
    /\ pc' = "main_loop"
    /\ UNCHANGED <<settings, latency, locals, pubvars, result, error, exit_status, hist>>

(* ---------------- update() ---------------- *)
\* the per-unit block as it would be if it ran in every mode
IsPhocosAlways(s) == TRUE
\* settings.mode == String::from("phocos")
IsPhocos(s) == s.mode = "phocos"
\* the aggregate block as it would be if it ran in every mode
NotPhocosAlways(s) == TRUE
\* settings.mode != String::from("phocos")
NotPhocos(s) == s.mode # "phocos"
\* the first index as it would be if debug were not consulted
start_index_zero(s) == 0
\* let start_index = if settings.debug { 0 } else { 1 }
start_index(s) == IF s.debug THEN 0 ELSE 1
\* if (settings.debug && index == 0) || index != 0
QpgsPublished(s, i) == (s.debug /\ i = 0) \/ i # 0
\* the range as it would be if it were inclusive (0..=inner_iterations)
InnerLoopInclusive(i, s) == i <= s.inner_iterations
\* for _ in 0..settings.inner_iterations: another iteration is yielded
InnerLoopContinues(i, s) == i < s.inner_iterations

\* update() as it would be if a failed pass were resumed where it stopped
update_resume ==
    /\ pc = "update"
    /\ IF lastResult = "Err"
       THEN UNCHANGED <<outer_start, iter>>
       ELSE outer_start' = now /\ iter' = 0
    /\ index' = 0
    /\ inner_start' = 0
    /\ inner_time' = 0
    /\ outer_time' = 0
    /\ pc' = "update_for"
    /\ UNCHANGED <<settings, latency, now, pubvars, result, error, exit_status, trace, hist>>

\* let outer_start = Instant::now(); every other local is not yet in scope
update ==
    /\ pc = "update"
    /\ outer_start' = now
    /\ iter' = 0
    /\ index' = 0
    /\ inner_start' = 0
    /\ inner_time' = 0
    /\ outer_time' = 0
    /\ pc' = "update_for"
    /\ UNCHANGED <<settings, latency, now, pubvars, result, error, exit_status, trace, hist>>

\* the loop head as it would be if inner_start were taken once, before the loop
update_for_one_start ==
    /\ pc = "update_for"
    /\ IF InnerLoopContinues(iter, settings)
       THEN /\ iter' = iter + 1
            /\ IF IsPhocos(settings)
               THEN /\ index' = start_index(settings)
                    /\ pc' = "update_qpgs"
               ELSE /\ pc' = "update_qpigs"
                    /\ UNCHANGED index
       ELSE /\ pc' = "update_qmod"
            /\ UNCHANGED <<iter, index>>
    /\ UNCHANGED <<settings, latency, outer_start, inner_start, inner_time, outer_time, now,
                   pubvars, result, error, exit_status, trace, hist>>

\* head of `for _ in 0..settings.inner_iterations`, inner_start, the mode test
update_for ==
    /\ pc = "update_for"
    /\ IF InnerLoopContinues(iter, settings)
       THEN /\ iter' = iter + 1
            /\ inner_start' = now
            /\ IF IsPhocos(settings)
               THEN /\ index' = start_index(settings)
                    /\ pc' = "update_qpgs"
               ELSE /\ pc' = "update_qpigs"
                    /\ UNCHANGED index
       ELSE /\ pc' = "update_qmod"
            /\ UNCHANGED <<iter, index, inner_start>>
    /\ UNCHANGED <<settings, latency, outer_start, inner_time, outer_time, now, pubvars,
                   result, error, exit_status, trace, hist>>

\* the match as it would be if its last arm (9 => QPGS9) were missing
DispatchableBelow(i) == i < MaxQpgsIndex
\* `match index { 0 => .., .., 9 => .., _ => unimplemented!() }`: an arm exists
Dispatchable(i) == i <= MaxQpgsIndex

\* one turn of `for index in start_index..=settings.inverter_count`
update_qpgs ==
    /\ pc = "update_qpgs"
    /\ IF index <= settings.inverter_count
       THEN /\ index' = index + 1
            /\ IF ~Dispatchable(index)
               THEN \* _ => unimplemented!()
                    /\ Exit(PanicStatus)
                    /\ UNCHANGED <<now, pubvars, result, error, trace>>
               ELSE /\ ExecuteAndPublish(QpgsCommand(index), QpgsTopic(index),
                                         QpgsPublished(settings, index), "update_qpgs")
                    /\ UNCHANGED exit_status
       ELSE /\ pc' = "update_qpigs"
            /\ UNCHANGED <<index, now, pubvars, result, error, exit_status, trace>>
    /\ UNCHANGED <<settings, latency, iter, outer_start, inner_start, inner_time, outer_time, hist>>

\* if settings.mode != "phocos" { QPIGS; publish "qpigs" }
update_qpigs ==
    /\ pc = "update_qpigs"
    /\ IF NotPhocos(settings)
       THEN ExecuteAndPublish("QPIGS", "qpigs", TRUE, "update_inner_stats")
       ELSE /\ pc' = "update_inner_stats"
            /\ UNCHANGED <<now, pubvars, result, error, trace>>
    /\ UNCHANGED <<settings, latency, locals, exit_status, hist>>

\* inner_time = inner_start.elapsed().as_millis(); publish "inner_stats"
update_inner_stats ==
    /\ pc = "update_inner_stats"
    /\ inner_time' = now - inner_start
    /\ stats' = Append(stats, [topic |-> "inner_stats", update_duration |-> inner_time'])
    /\ Log(<<PubEv("inner_stats", "Stats")>>)
    /\ CallPublish("publish_update", "inner_stats", Payload("Stats", inner_time'),
                   "update_inner_sleep")
    /\ UNCHANGED <<settings, latency, iter, index, outer_start, inner_start, outer_time, now,
                   result, error, exit_status, passes, lastResult>>

\* sleep(Duration::from_secs(settings.inner_delay)); end of the loop body
update_inner_sleep ==
    /\ pc = "update_inner_sleep"
    /\ Log(<<SleepEv("inner_delay", settings.inner_delay)>>)
    /\ now' = now + settings.inner_delay * MillisPerSec
    /\ pc' = "update_for"
    /\ UNCHANGED <<settings, latency, locals, pubvars, result, error, exit_status, hist>>

update_qmod ==
    /\ pc = "update_qmod"
    /\ ExecuteAndPublish("QMOD", "qmod", TRUE, "update_qpiws")
    /\ UNCHANGED <<settings, latency, locals, exit_status, hist>>

update_qpiws ==
    /\ pc = "update_qpiws"
    /\ ExecuteAndPublish("QPIWS", "qpiws", TRUE, "update_qpiri")
    /\ UNCHANGED <<settings, latency, locals, exit_status, hist>>

\* the rating query as it would be if the full schema were used in every mode
update_qpiri_full ==
    /\ pc = "update_qpiri"
    /\ ExecuteAndPublish("QPIRI", "qpiri", TRUE, "update_outer_stats")
    /\ UNCHANGED <<settings, latency, locals, exit_status, hist>>

\* QPIRI when mode != "phocos", else QPIRIReduced; both published as "qpiri"
update_qpiri ==
    /\ pc = "update_qpiri"
    /\ IF NotPhocos(settings)
       THEN ExecuteAndPublish("QPIRI", "qpiri", TRUE, "update_outer_stats")
       ELSE ExecuteAndPublish("QPIRIReduced", "qpiri", TRUE, "update_outer_stats")
    /\ UNCHANGED <<settings, latency, locals, exit_status, hist>>

\* outer_time = outer_start.elapsed().as_millis(); publish "outer_stats"
update_outer_stats ==
    /\ pc = "update_outer_stats"
    /\ outer_time' = now - outer_start
    /\ stats' = Append(stats, [topic |-> "outer_stats", update_duration |-> outer_time'])
    /\ Log(<<PubEv("outer_stats", "Stats")>>)
    /\ CallPublish("publish_update", "outer_stats", Payload("Stats", outer_time'),
                   "update_outer_sleep")
    /\ UNCHANGED <<settings, latency, iter, index, outer_start, inner_start, inner_time, now,
                   result, error, exit_status, passes, lastResult>>

\* update() as it would be if it returned Ok(()) before the outer sleep,
\* leaving the sleep to the caller after the clear
update_outer_sleep_late ==
    /\ pc = "update_outer_sleep"
    /\ Log(<<PubEv("error", ""), SleepEv("outer_delay", settings.outer_delay)>>)
    /\ now' = now + settings.outer_delay * MillisPerSec
    /\ result' = "Ok"
    /\ CallPublish("clear_error", "error", Payload("", 0), "main_loop")
    /\ UNCHANGED <<settings, latency, locals, error, exit_status, hist>>

\* sleep(Duration::from_secs(settings.outer_delay)); Ok(())
update_outer_sleep ==
    /\ pc = "update_outer_sleep"
    /\ Log(<<SleepEv("outer_delay", settings.outer_delay)>>)
    /\ now' = now + settings.outer_delay * MillisPerSec
    /\ result' = "Ok"
    /\ pc' = "main_match"
    /\ UNCHANGED <<settings, latency, locals, pubvars, error, exit_status, hist>>

Next ==
    \/ main_settings \/ main_mqtt_build \/ main_mqtt_connect \/ main_discovery
    \/ main_raw_open \/ main_todo
    \/ init_qid \/ init_qpi \/ init_qvfw \/ init_done \/ main_init
    \/ main_loop \/ main_match \/ main_error_sleep
    \/ update \/ update_for \/ update_qpgs \/ update_qpigs
    \/ update_inner_stats \/ update_inner_sleep
    \/ update_qmod \/ update_qpiws \/ update_qpiri
    \/ update_outer_stats \/ update_outer_sleep
    \/ publish_update \/ publish_error \/ clear_error

Spec == Init /\ [][Next]_vars

\* the call of update() once the history counter `passes` has reached its
\* bound: the loop of main() goes on, the counter stays
main_loop_again ==
    /\ pc = "main_loop"
    /\ passes = MaxPasses
    /\ pc' = "update"
    /\ lastResult' = result
    /\ result' = "none"
    /\ error' = ""
    /\ trace' = <<>>
    /\ stats' = <<>>
    /\ now' = 0
    /\ outer_start' = outer_start - now
    /\ inner_start' = inner_start - now
    /\ latency' \in CmdMs
    /\ UNCHANGED <<settings, iter, index, inner_time, outer_time, pubvars, exit_status,
                   passes>>

LiveNext == Next \/ main_loop_again

\* one thread of control, and every device call, publish attempt and sleep
\* returns: a step that can be taken is eventually taken
LiveSpec == Init /\ [][LiveNext]_vars /\ WF_vars(LiveNext)

(* ======================= properties ======================= *)
IsPrefix(a, b) == Len(a) <= Len(b) /\ SubSeq(b, 1, Len(a)) = a

RECURSIVE Rep(_, _)
Rep(seq, n) == IF n = 0 THEN <<>> ELSE seq \o Rep(seq, n - 1)

Count(seq, Test(_)) == Len(SelectSeq(seq, Test))

\* the history is that of a pass of the update loop (not of bootstrap and init)
InPass == passes >= 1

PublishFns == {"publish_update", "publish_error", "clear_error"}
QpgsCommands == {QpgsCommand(i) : i \in 0..MaxQpgsIndex}
QpgsTopics == {QpgsTopic(i) : i \in 0..MaxQpgsIndex}

\* the events up to, not including, position i
Before(i) == SubSeq(trace, 1, i - 1)
\* the publishes and sleeps of the history, in order
Observable(seq) == SelectSeq(seq, LAMBDA e : e.k \in {"pub", "sleep"})
FailedAt(i) == trace[i].k = "cmd" /\ trace[i].p = "err"
NoCommandFailed == \A i \in 1..Len(trace) : ~FailedAt(i)

(* C1: a pass in which no command fails has made exactly inner_iterations
   inner passes (status queries, inner_stats publish, inner_delay sleep) when
   its first outer-tier command QMOD is issued; with inner_iterations = 0
   QMOD is the first thing the pass does. *)
C1_InnerPassesBeforeOuter ==
    InPass =>
      \A i \in 1..Len(trace) :
        (trace[i].k = "cmd" /\ trace[i].n = "QMOD") =>
          /\ Count(Before(i), LAMBDA e : e = PubEv("inner_stats", "Stats"))
               = settings.inner_iterations
          /\ Count(Before(i), LAMBDA e : e = SleepEv("inner_delay", settings.inner_delay))
               = settings.inner_iterations
          /\ (settings.mode # "phocos" =>
                Count(Before(i), LAMBDA e : e = CmdEv("QPIGS", TRUE))
                  = settings.inner_iterations)
          /\ iter = settings.inner_iterations
          /\ (settings.inner_iterations = 0 => i = 1)
          /\ Count(Before(i), LAMBDA e : e.k = "cmd" /\ e.n = "QMOD") = 0

C1_Witness ==
    /\ InPass
    /\ settings.inner_iterations = MaxInnerIterations
    /\ pc = "publish_update"
    /\ msg.topic = "qmod"

C1_WitnessZero ==
    /\ InPass
    /\ settings.inner_iterations = 0
    /\ pc = "main_loop"
    /\ result = "Ok"

(* C2: once a command of a pass has failed, the pass issues no further device
   command and no further telemetry publish (only the error publish and the
   error_delay sleep follow), and the next pass starts from scratch: at its
   start no inner iteration has been counted and outer_start is the current
   instant, and throughout the pass the iteration counter matches the inner
   passes this pass itself has made. *)
C2_FailedPassAbandoned ==
    InPass =>
      /\ \A i \in 1..Len(trace) :
           FailedAt(i) =>
             \A j \in (i + 1)..Len(trace) :
               \/ trace[j] = PubEv("error", trace[i].n)
               \/ trace[j] = SleepEv("error_delay", settings.error_delay)
      /\ (pc = "update_for" /\ trace = <<>>) => (iter = 0 /\ outer_start = now)
      /\ pc \in UpdatePcs \cup {"update_for", "update_qpigs", "update_qmod"} =>
           LET done == Count(trace, LAMBDA e : e = PubEv("inner_stats", "Stats"))
           IN  iter \in {done, done + 1}

C2_Witness ==
    /\ lastResult = "Err"
    /\ pc = "update_for"
    /\ trace = <<>>
    /\ outer_start = now
    /\ settings.inner_iterations = MaxInnerIterations

(* C3: in default mode, while every command succeeds, the publishes and
   sleeps of a pass are exactly (qpigs, inner_stats, sleep inner_delay)
   inner_iterations times, then qmod, qpiws, qpiri, outer_stats, then sleep
   outer_delay, then the clear of the error channel; every pass of the loop
   repeats this sequence. *)
C3_DefaultSequence ==
    LET inner == <<PubEv("qpigs", "QPIGS"), PubEv("inner_stats", "Stats"),
                   SleepEv("inner_delay", settings.inner_delay)>>
        outer == <<PubEv("qmod", "QMOD"), PubEv("qpiws", "QPIWS"),
                   PubEv("qpiri", "QPIRI"), PubEv("outer_stats", "Stats"),
                   SleepEv("outer_delay", settings.outer_delay),
                   PubEv("error", "")>>
        expected == Rep(inner, settings.inner_iterations) \o outer
    IN  (InPass /\ settings.mode = "default" /\ NoCommandFailed) =>
          /\ IsPrefix(Observable(trace), expected)
          /\ (pc = "main_loop" => Observable(trace) = expected)

C3_Witness ==
    /\ passes = MaxPasses
    /\ lastResult = "Ok"
    /\ settings.mode = "default"
    /\ settings.inner_iterations = 2
    /\ pc = "main_loop"
    /\ result = "Ok"

\* the events after position i
After(i) == SubSeq(trace, i + 1, Len(trace))
InnerStatsDone(seq) == Count(seq, LAMBDA e : e = PubEv("inner_stats", "Stats"))

\* the unit indices an inner pass polls in alternate mode, as the spec states
\* them: 1..inverter_count, and 0..inverter_count when debug is on
FirstUnit(s) == IF s.debug THEN 0 ELSE 1
UnitCount(s) == IF s.inverter_count >= FirstUnit(s)
                THEN s.inverter_count - FirstUnit(s) + 1 ELSE 0
UnitAt(s, j) == FirstUnit(s) + j - 1
\* the status publishes of one complete inner pass
StatusPubs(s) ==
    IF s.mode = "phocos"
    THEN [j \in 1..UnitCount(s) |-> PubEv(QpgsTopic(UnitAt(s, j)), QpgsCommand(UnitAt(s, j)))]
    ELSE <<PubEv("qpigs", "QPIGS")>>
\* the publishes and sleeps of one complete inner pass
InnerEvents(s) ==
    StatusPubs(s) \o <<PubEv("inner_stats", "Stats"), SleepEv("inner_delay", s.inner_delay)>>
StatusCommands == {"QPIGS"} \cup QpgsCommands
ErrorEvents(cmd) == <<PubEv("error", cmd), SleepEv("error_delay", settings.error_delay)>>

(* C4, as the spec states it: when a command fails at inner iteration k, what
   the pass has published and slept before the failure is exactly the
   complete events of iterations 1..k-1; the error publish and then the
   error_delay sleep follow. *)
C4_OnlyCompleteIterationsBeforeError ==
    InPass =>
      \A i \in 1..Len(trace) :
        (FailedAt(i) /\ trace[i].n \in StatusCommands) =>
          LET k == InnerStatsDone(Before(i)) + 1
          IN  /\ Observable(Before(i)) = Rep(InnerEvents(settings), k - 1)
              /\ IsPrefix(After(i), ErrorEvents(trace[i].n))

(* C4, amended: before the failure come the complete events of iterations
   1..k-1 and then the publishes of the per-unit queries of iteration k that
   succeeded before the failing one (none in default mode); the error message
   is published next, with no sleep in between, then error_delay is slept,
   and nothing else happens before the next call of update(). *)
C4_EventsOfFailedInnerPass ==
    InPass =>
      \A i \in 1..Len(trace) :
        (FailedAt(i) /\ trace[i].n \in StatusCommands) =>
          LET k == InnerStatsDone(Before(i)) + 1
              whole == Rep(InnerEvents(settings), k - 1)
              part == SubSeq(Observable(Before(i)), Len(whole) + 1,
                             Len(Observable(Before(i))))
          IN  /\ k <= settings.inner_iterations
              /\ IsPrefix(whole, Observable(Before(i)))
              /\ IsPrefix(part, StatusPubs(settings))
              /\ Len(part) < Len(StatusPubs(settings))
              /\ trace[i].n = StatusPubs(settings)[Len(part) + 1].p
              /\ IsPrefix(After(i), ErrorEvents(trace[i].n))
              /\ error = trace[i].n
              /\ (pc = "main_error_sleep" => After(i) = <<PubEv("error", trace[i].n)>>)
              /\ (pc = "main_loop" => After(i) = ErrorEvents(trace[i].n))

C4_Witness ==
    /\ pc = "main_loop"
    /\ result = "Err"
    /\ error = "QPGS2"
    /\ InnerStatsDone(trace) = 1
    /\ trace[Len(trace)] = SleepEv("error_delay", settings.error_delay)

(* C5, as the spec states it: when a pass has completed without error and its
   clear has returned, the error channel has received the empty payload
   exactly once, whatever the sink did. *)
C5_ClearAlwaysReceived ==
    (InPass /\ pc = "main_loop" /\ result = "Ok") => delivered = 1

(* C5, amended: for every pass that completes without error clear_error is
   called exactly once, after everything else of the pass; it sends the empty
   payload to the error channel and the channel receives it at most once:
   once when one of its at most 5 attempts succeeds, never when all 5 fail. *)
C5_ClearCalledOncePerPass ==
    (InPass /\ pc = "main_loop" /\ result = "Ok") =>
      /\ Count(trace, LAMBDA e : e = PubEv("error", "")) = 1
      /\ trace[Len(trace)] = PubEv("error", "")
      /\ msg = [topic |-> "error", payload |-> Payload("", 0)]
      /\ delivered \in {0, 1}
      /\ attempts \in 1..PublishAttempts
      /\ (delivered = 0 => attempts = PublishAttempts)

C5_Witness ==
    /\ InPass
    /\ pc = "main_loop"
    /\ result = "Ok"
    /\ delivered = 0
    /\ attempts = PublishAttempts

LastPub(seq) ==
    LET pubs == SelectSeq(seq, LAMBDA e : e.k = "pub")
    IN  pubs[Len(pubs)]

(* C6: every publish operation makes between 1 and 5 delivery attempts of
   one message, goes on exactly while no attempt has succeeded and fewer than
   5 were made, and returns success even if all 5 failed: no Err result and
   no exit of the process ever comes from a publish. *)
C6_BoundedRetryReturnsOk ==
    /\ attempts \in 0..5
    /\ delivered \in {0, 1}
    /\ pc \in PublishFns =>
         /\ delivered = 0
         /\ attempts < 5
         /\ LastPub(trace) = PubEv(msg.topic, msg.payload.body)
    /\ (pc \notin PublishFns /\ msg # NoMsg) =>
         /\ attempts >= 1
         /\ (delivered = 1 \/ attempts = 5)
    /\ error # "publish"
    /\ (exit_status = 1 => msg = NoMsg)
    /\ (result = "Err" => \E i \in 1..Len(trace) : FailedAt(i) /\ trace[i].n = error)

C6_Witness ==
    /\ InPass
    /\ pc = "update_qpiws"
    /\ msg.topic = "qmod"
    /\ attempts = 5
    /\ delivered = 0
    /\ result = "none"

(* C7, as the spec states it: once a telemetry publish of a pass has failed
   (all its attempts), the scheduler is in ErrorBackoff: the pass has ended
   with an error. *)
C7_PublishFailureEntersErrorBackoff ==
    (InPass /\ pc \notin PublishFns /\ msg.topic # "error"
            /\ attempts = 5 /\ delivered = 0) => result = "Err"

(* C7, amended: a publish failure, even of all 5 attempts, does not put the
   scheduler into ErrorBackoff and abandons nothing: publish_update returns
   to the next scheduled step of the pass with no error set; a pass ends in
   error exactly when one of its commands has failed, with that command's
   error attached. *)
C7_OnlyCommandFailureEntersErrorBackoff ==
    InPass =>
      /\ (result = "Err") <=> (\E i \in 1..Len(trace) : FailedAt(i))
      /\ \A i \in 1..Len(trace) : FailedAt(i) => error = trace[i].n
      /\ (pc = ret /\ ret \in UpdatePcs) => (result = "none" /\ NoCommandFailed)
      /\ (pc = "update_for" /\ trace # <<>> /\ iter < settings.inner_iterations)
           => result = "none"

C7_Witness ==
    /\ InPass
    /\ pc = "update_inner_sleep"
    /\ ret = "update_inner_sleep"
    /\ attempts = 5
    /\ delivered = 0
    /\ iter < settings.inner_iterations
    /\ result = "none"

Names(seq) == [j \in 1..Len(seq) |-> seq[j].n]
IsInnerStats(e) == e = PubEv("inner_stats", "Stats")
IsQpgsCmd(e) == e.k = "cmd" /\ e.n \in QpgsCommands
IsQpgsPub(e) == e.k = "pub" /\ e.n \in QpgsTopics

(* C8: in alternate mode (mode = "phocos") every inner pass issues the
   per-unit status query for the indices 1..inverter_count in ascending
   order, and 0..inverter_count when debug is on, each successful query being
   published at once under qpgs<i>; index 0 is neither queried nor published
   when debug is off. *)
C8_AlternateModeUnits ==
    LET units == IF settings.debug THEN 0..settings.inverter_count
                                   ELSE 1..settings.inverter_count
        cmds == [j \in 1..UnitCount(settings) |-> QpgsCommand(UnitAt(settings, j))]
        issued == Names(SelectSeq(trace, LAMBDA e : IsQpgsCmd(e) \/ IsInnerStats(e)))
        published == SelectSeq(trace, LAMBDA e : IsQpgsPub(e) \/ IsInnerStats(e))
    IN  (InPass /\ settings.mode = "phocos") =>
          /\ \A i \in 1..Len(trace) :
               /\ IsQpgsCmd(trace[i]) => \E u \in units : trace[i].n = QpgsCommand(u)
               /\ IsQpgsPub(trace[i]) =>
                    \E u \in units :
                      /\ trace[i] = PubEv(QpgsTopic(u), QpgsCommand(u))
                      /\ trace[i - 1] = CmdEv(QpgsCommand(u), TRUE)
          /\ IsPrefix(issued, Rep(cmds \o <<"inner_stats">>, settings.inner_iterations))
          /\ IsPrefix(published,
                      Rep(StatusPubs(settings) \o <<PubEv("inner_stats", "Stats")>>,
                          settings.inner_iterations))
          /\ (~settings.debug =>
                \A i \in 1..Len(trace) : trace[i].n \notin {"QPGS0", "qpgs0"})
          /\ Count(trace, LAMBDA e : e.n \in {"QPIGS", "qpigs"}) = 0

C8_Witness ==
    /\ InPass
    /\ settings.mode = "phocos"
    /\ settings.inverter_count = 3
    /\ ~settings.debug
    /\ pc = "update_inner_sleep"
    /\ Names(SelectSeq(trace, IsQpgsPub)) = <<"qpgs1", "qpgs2", "qpgs3">>

(* C9: in default mode every inner pass issues exactly the one aggregate
   status query QPIGS, published as qpigs, and no per-unit query QPGS0..QPGS9
   is ever issued or published, whatever inverter_count and debug are. *)
C9_DefaultModeAggregateOnly ==
    (InPass /\ settings.mode # "phocos") =>
      /\ \A i \in 1..Len(trace) :
           /\ ~IsQpgsCmd(trace[i])
           /\ ~IsQpgsPub(trace[i])
           /\ IsInnerStats(trace[i]) =>
                /\ i >= 3
                /\ trace[i - 2] = CmdEv("QPIGS", TRUE)
                /\ trace[i - 1] = PubEv("qpigs", "QPIGS")
                /\ (i > 3 => trace[i - 3] = SleepEv("inner_delay", settings.inner_delay))
      /\ Count(trace, LAMBDA e : e.k = "cmd" /\ e.n = "QPIGS")
           <= settings.inner_iterations

C9_Witness ==
    /\ InPass
    /\ settings.mode = "default"
    /\ settings.inverter_count = MaxInverterCount
    /\ settings.debug
    /\ pc = "update_qmod"
    /\ Count(trace, LAMBDA e : e = PubEv("qpigs", "QPIGS")) = 2

QpigsUsed == \E i \in 1..Len(trace) : trace[i].k = "pub" /\ trace[i].n = "qpigs"
QpgsUsed == \E i \in 1..Len(trace) : IsQpgsPub(trace[i])
CycleCompleted == InPass /\ pc = "main_loop" /\ result = "Ok"

(* C10, as the spec states it: every completed cycle has used exactly one of
   the two status channel families, qpigs or qpgs0..qpgs9: never both and
   never neither. *)
C10_ExactlyOneFamily ==
    CycleCompleted => (QpigsUsed /\ ~QpgsUsed) \/ (QpgsUsed /\ ~QpigsUsed)

(* C10, amended: no cycle uses both families, and mode selects the one that
   can be used; a completed cycle publishes qpigs exactly when mode is default
   and inner_iterations >= 1, and publishes some qpgs<i> exactly when mode is
   alternate, inner_iterations >= 1 and there is a unit to poll
   (inverter_count >= 1, or debug on); otherwise it uses neither. *)
C10_AtMostOneFamily ==
    InPass =>
      /\ ~(QpigsUsed /\ QpgsUsed)
      /\ QpigsUsed => settings.mode # "phocos"
      /\ QpgsUsed => settings.mode = "phocos"
      /\ CycleCompleted =>
           /\ QpigsUsed <=> (settings.mode # "phocos" /\ settings.inner_iterations >= 1)
           /\ QpgsUsed <=> /\ settings.mode = "phocos"
                           /\ settings.inner_iterations >= 1
                           /\ (settings.inverter_count >= 1 \/ settings.debug)

C10_Witness ==
    /\ CycleCompleted
    /\ settings.mode = "phocos"
    /\ settings.inverter_count = 0
    /\ ~settings.debug
    /\ settings.inner_iterations >= 1
    /\ ~QpigsUsed
    /\ ~QpgsUsed

(* C11: the update loop has no terminal state: whenever update() has
   returned, whether it failed or not and whatever the error publish or the
   clear publish then do, a new pass is eventually started with no inner
   iteration counted yet, so that its first inner iteration is iteration 1. *)
C11_NeverGivesUp ==
    (InPass /\ pc = "main_match") ~> (pc = "update_for" /\ iter = 0 /\ trace = <<>>)

C11_Witness ==
    /\ lastResult = "Err"
    /\ result = "Err"
    /\ pc = "main_error_sleep"
    /\ msg.topic = "error"
    /\ attempts = 5
    /\ delivered = 0

\* init() has returned Err: its protocol-id or firmware-version query failed
InitFailed == passes = 0 /\ result = "Err" /\ error \in {"QPI", "QVFW"}
LoopPcs == UpdatePcs \cup {"main_loop", "update", "update_for", "update_qpigs",
                           "update_qmod", "main_match", "main_error_sleep"}

(* C12: when the protocol-id or firmware-version query fails during
   initialization, the caller publishes the error on the error channel, the
   polling loop is never entered, and the process does not crash (it never
   ends by a panic). *)
C12_InitFailureDoesNotCrash ==
    InitFailed =>
      /\ pc \notin LoopPcs
      /\ (pc \in {"main_todo", "exit"} => trace[Len(trace)] = PubEv("error", error))
      /\ exit_status # PanicStatus

\* the commands and telemetry publishes of the history (the error channel left out)
InitEvents == SelectSeq(trace, LAMBDA e : e.k = "cmd" \/ (e.k = "pub" /\ e.n # "error"))
InitCommands == {"QID", "QPI", "QVFW"}

(* C13: initialization issues each of identity (QID), protocol id (QPI) and
   firmware version (QVFW) at most once, in this order, before the first call
   of update(), and publishes each successful result at once under qid, qpi,
   qvfw; a failed QID publishes nothing and QPI comes next; a failed QPI ends
   initialization, so QVFW is not issued; the update loop is entered only
   after QPI and QVFW succeeded, and issues none of the three again. *)
C13_InitOrder ==
    LET qidOk == <<CmdEv("QID", TRUE), PubEv("qid", "QID")>>
        qidErr == <<CmdEv("QID", FALSE)>>
        qpiOk == <<CmdEv("QPI", TRUE), PubEv("qpi", "QPI")>>
        qpiErr == <<CmdEv("QPI", FALSE)>>
        qvfwOk == <<CmdEv("QVFW", TRUE), PubEv("qvfw", "QVFW")>>
        qvfwErr == <<CmdEv("QVFW", FALSE)>>
        runs == {q \o r : q \in {qidOk, qidErr},
                          r \in {qpiErr, qpiOk \o qvfwErr, qpiOk \o qvfwOk}}
    IN  /\ passes = 0 =>
             /\ \E run \in runs : IsPrefix(InitEvents, run)
             /\ (pc \in {"main_init", "main_loop"} \/ InitFailed) => InitEvents \in runs
             /\ error = "raw_open" => InitEvents = <<>>
             /\ pc = "main_loop" =>
                  \E q \in {qidOk, qidErr} : InitEvents = q \o qpiOk \o qvfwOk
        /\ InPass => \A i \in 1..Len(trace) : trace[i].n \notin InitCommands

C13_Witness ==
    /\ passes = 0
    /\ pc = "main_loop"
    /\ InitEvents = <<CmdEv("QID", FALSE), CmdEv("QPI", TRUE), PubEv("qpi", "QPI"),
                      CmdEv("QVFW", TRUE), PubEv("qvfw", "QVFW")>>

\* the process ended before the transport was opened and initialised
BootstrapFailed == pc = "exit" /\ passes = 0 /\ error \in {"", "raw_open"}

(* C14: every bootstrap failure (configuration, MQTT client build or connect,
   transport open) ends the process with a non-zero exit status; a failure
   before the transport is opened publishes nothing, and a transport-open
   failure publishes its error before the process ends. *)
C14_BootstrapFailureNonZero ==
    BootstrapFailed =>
      /\ exit_status # 0
      /\ error = "" => trace = <<>>
      /\ error = "raw_open" => trace = <<PubEv("error", "raw_open")>>

\* the history from its first QMOD command on (empty if QMOD was not issued)
OuterTier ==
    LET at == {i \in 1..Len(trace) : trace[i].k = "cmd" /\ trace[i].n = "QMOD"}
    IN  IF at = {} THEN <<>>
        ELSE SubSeq(trace, CHOOSE i \in at : \A j \in at : i <= j, Len(trace))
\* the rating query of the mode: full schema in default mode, reduced otherwise
RatingCommand(s) == IF s.mode = "phocos" THEN "QPIRIReduced" ELSE "QPIRI"

(* C15: the outer tier issues QMOD, QPIWS and the rating query in this order,
   each once, and publishes each result (under qmod, qpiws, qpiri) before the
   next command is issued; the rating query is the full-schema QPIRI in
   default mode and the reduced-schema QPIRIReduced in the alternate mode,
   never both in a pass; outer_stats is published after all three, and the
   outer_delay sleep follows it.  A failed command ends the tier at once. *)
C15_OuterTierOrder ==
    LET outer == <<"QMOD", "QPIWS", RatingCommand(settings)>>
        topics == <<"qmod", "qpiws", "qpiri">>
        Done(k) == IF k = 0 THEN <<>>
                   ELSE IF k = 1 THEN <<CmdEv(outer[1], TRUE), PubEv(topics[1], outer[1])>>
                   ELSE IF k = 2 THEN <<CmdEv(outer[1], TRUE), PubEv(topics[1], outer[1]),
                                        CmdEv(outer[2], TRUE), PubEv(topics[2], outer[2])>>
                   ELSE <<CmdEv(outer[1], TRUE), PubEv(topics[1], outer[1]),
                          CmdEv(outer[2], TRUE), PubEv(topics[2], outer[2]),
                          CmdEv(outer[3], TRUE), PubEv(topics[3], outer[3])>>
        complete == Done(3) \o <<PubEv("outer_stats", "Stats"),
                                 SleepEv("outer_delay", settings.outer_delay),
                                 PubEv("error", "")>>
        Failed(k) == Done(k - 1) \o <<CmdEv(outer[k], FALSE), PubEv("error", outer[k]),
                                      SleepEv("error_delay", settings.error_delay)>>
        other == IF settings.mode = "phocos" THEN "QPIRI" ELSE "QPIRIReduced"
    IN  InPass =>
          /\ \/ IsPrefix(OuterTier, complete)
             \/ \E k \in 1..3 : IsPrefix(OuterTier, Failed(k))
          /\ \A i \in 1..Len(trace) : trace[i].n # other /\ trace[i].p # other
          /\ pc = "update_outer_stats" => OuterTier = Done(3)
          /\ pc = "main_loop" /\ result = "Ok" => OuterTier = complete

C15_Witness ==
    /\ InPass
    /\ settings.mode = "phocos"
    /\ pc = "update_outer_sleep"
    /\ \E i \in 1..Len(trace) : trace[i] = PubEv("qpiri", "QPIRIReduced")

\* the events a step adds to the history
Added == IF Len(trace') > Len(trace) THEN SubSeq(trace', Len(trace) + 1, Len(trace')) ELSE <<>>

(* C16: at most one device command is outstanding at a time, and the publish
   of a command's result is complete (delivered, or all its attempts made)
   before the next device command is issued, before any sleep and before any
   other publish is begun: a step that issues a command, sleeps or begins a
   publish is never taken inside a publish function, it issues at most one
   command, and the publish begun last has ended. *)
C16_PublishCompletesFirst ==
    [][Added # <<>> =>
         /\ pc \notin PublishFns
         /\ Count(Added, LAMBDA e : e.k = "cmd") <= 1
         /\ (trace # <<>> /\ trace[Len(trace)].k = "pub") =>
              /\ msg.topic = trace[Len(trace)].n
              /\ delivered = 1 \/ (delivered = 0 /\ attempts = PublishAttempts)]_vars

C16_Witness ==
    /\ InPass
    /\ pc = "update_qpiws"
    /\ msg.topic = "qmod"
    /\ attempts = PublishAttempts
    /\ delivered = 0

\* the device commands of a history, in order
Commands(seq) == SelectSeq(seq, LAMBDA e : e.k = "cmd")
\* the status commands of one inner pass, all of them successful
StatusOk(s) == [j \in 1..Len(StatusPubs(s)) |-> CmdEv(StatusPubs(s)[j].p, TRUE)]
\* the three commands of the outer tier, all of them successful
OuterOk(s) == <<CmdEv("QMOD", TRUE), CmdEv("QPIWS", TRUE), CmdEv(RatingCommand(s), TRUE)>>

(* C17: a heartbeat is published only for a tier that succeeded: when
   inner_stats is published, every status command of its inner iteration (and
   of the iterations before it) has been issued and has succeeded; when
   outer_stats is published, every command of the pass, inner and outer, has
   succeeded; after a failed command the pass publishes no heartbeat. *)
C17_HeartbeatOnlyOnSuccess ==
    InPass =>
      \A i \in 1..Len(trace) :
        /\ trace[i] = PubEv("inner_stats", "Stats") =>
             Commands(Before(i))
               = Rep(StatusOk(settings), InnerStatsDone(Before(i)) + 1)
        /\ trace[i] = PubEv("outer_stats", "Stats") =>
             Commands(Before(i))
               = Rep(StatusOk(settings), settings.inner_iterations) \o OuterOk(settings)
        /\ FailedAt(i) =>
             \A j \in (i + 1)..Len(trace) :
               trace[j].n \notin {"inner_stats", "outer_stats"}

C17_Witness ==
    /\ InPass
    /\ pc = "main_error_sleep"
    /\ error = "QPIWS"
    /\ settings.inner_iterations = MaxInnerIterations
    /\ InnerStatsDone(trace) = MaxInnerIterations
    /\ \A i \in 1..Len(trace) : trace[i].n # "outer_stats"

IsClear(e) == e = PubEv("error", "")

(* C18: the empty payload is published to the error channel only at startup
   (once, after the transport was opened and before the first initialization
   query) or right after an update() that returned success, as the last thing
   of its pass; a failed pass is never followed by a clear: when the next
   pass is called the error channel still holds the message of the failure. *)
C18_ClearOnlyAfterSuccess ==
    /\ \A i \in 1..Len(trace) :
         IsClear(trace[i]) =>
           IF InPass
           THEN /\ i = Len(trace)
                /\ i > 1
                /\ trace[i - 1] = SleepEv("outer_delay", settings.outer_delay)
                /\ result = "Ok"
                /\ NoCommandFailed
           ELSE i = 1
    /\ passes = 0 /\ Commands(trace) # <<>> => IsClear(trace[1])
    /\ result = "Err" =>
         /\ Count(trace, IsClear) = (IF InPass THEN 0 ELSE 1)
         /\ pc = "main_loop" => msg = [topic |-> "error", payload |-> Payload(error, 0)]
         /\ pc = "main_loop" => error # ""

C18_Witness ==
    /\ passes = MaxPasses
    /\ lastResult = "Ok"
    /\ pc = "main_loop"
    /\ result = "Err"
    /\ Count(trace, IsClear) = 0

RECURSIVE SumMs(_)
SumMs(seq) == IF seq = <<>> THEN 0 ELSE seq[1].update_duration + SumMs(Tail(seq))
InnerReports == SelectSeq(stats, LAMBDA r : r.topic = "inner_stats")
OuterReports == SelectSeq(stats, LAMBDA r : r.topic = "outer_stats")
\* ms the inner_delay sleeps of a complete pass take
InnerSleepMs(s) == s.inner_iterations * s.inner_delay * MillisPerSec

(* C19: the duration inner_stats reports is the time of the status commands
   of its own inner iteration: it leaves out the inner_delay sleep and
   everything before the iteration; the duration outer_stats reports runs
   from the start of update() to the end of the rating query: it includes
   every inner iteration and every inner_delay sleep, leaves out the
   outer_delay sleep, and is at least the sum of the inner durations plus
   inner_iterations * inner_delay * 1000 ms; both are taken anew in every
   pass, whatever the pass before did. *)
C19_StatsDurations ==
    InPass =>
      /\ Len(InnerReports) = InnerStatsDone(trace)
      /\ \A j \in 1..Len(InnerReports) :
           /\ InnerReports[j].update_duration = latency * Len(StatusOk(settings))
           /\ InnerReports[j].update_duration < settings.inner_delay * MillisPerSec
      /\ Len(OuterReports) <= 1
      /\ \A j \in 1..Len(OuterReports) :
           LET d == OuterReports[j].update_duration
               commands == settings.inner_iterations * Len(StatusOk(settings))
                             + Len(OuterOk(settings))
           IN  /\ Len(InnerReports) = settings.inner_iterations
               /\ d = latency * commands + InnerSleepMs(settings)
               /\ d >= SumMs(InnerReports) + InnerSleepMs(settings)
               /\ d < InnerSleepMs(settings) + settings.outer_delay * MillisPerSec
      /\ (pc = "publish_update" /\ msg.topic \in {"inner_stats", "outer_stats"}) =>
           /\ stats[Len(stats)].topic = msg.topic
           /\ msg.payload = Payload("Stats", stats[Len(stats)].update_duration)

C19_Witness ==
    /\ passes > 1
    /\ pc = "main_match"
    /\ result = "Ok"
    /\ latency = 1
    /\ settings.mode = "phocos"
    /\ settings.inverter_count = MaxInverterCount
    /\ settings.inner_iterations = MaxInnerIterations
    /\ Len(OuterReports) = 1
    /\ OuterReports[1].update_duration > SumMs(InnerReports) + InnerSleepMs(settings)

\* an inner pass of the alternate mode that has no unit to poll
NoUnit(s) == s.mode = "phocos" /\ s.inverter_count = 0 /\ ~s.debug

(* C20: with inverter_count in 0..9, every per-unit index that is dispatched
   lies in 0..9 (the command is QPGS<index>, from the configured first index
   up to inverter_count) and the unimplemented branch is never taken: no
   pass ends in a panic.  In the alternate mode with inverter_count = 0 and
   debug off, an inner pass issues no device command, yet it publishes
   inner_stats (reporting 0 ms) and sleeps inner_delay: QMOD is preceded by
   exactly inner_iterations such pairs. *)
C20_DispatchInRange ==
    (InPass /\ settings.inverter_count \in 0..MaxQpgsIndex) =>
      /\ exit_status # PanicStatus
      /\ pc = "update_qpgs" => index \in start_index(settings)..(settings.inverter_count + 1)
      /\ \A i \in 1..Len(trace) :
           (trace[i].k = "cmd" /\ trace[i].n \in QpgsCommands) =>
             \E u \in start_index(settings)..settings.inverter_count :
               u \in 0..MaxQpgsIndex /\ trace[i].n = QpgsCommand(u)
      /\ NoUnit(settings) =>
           /\ \A i \in 1..Len(trace) :
                (trace[i].k = "cmd" /\ trace[i].n = "QMOD") =>
                  Before(i) = Rep(<<PubEv("inner_stats", "Stats"),
                                    SleepEv("inner_delay", settings.inner_delay)>>,
                                  settings.inner_iterations)
           /\ \A j \in 1..Len(InnerReports) : InnerReports[j].update_duration = 0
           /\ pc \in {"update_inner_stats", "update_inner_sleep"} =>
                \A i \in 1..Len(trace) : trace[i].k # "cmd"

C20_Witness ==
    /\ InPass
    /\ settings.inverter_count = MaxQpgsIndex
    /\ pc = "update_inner_stats"
    /\ trace[Len(trace)] = PubEv(QpgsTopic(MaxQpgsIndex), QpgsCommand(MaxQpgsIndex))

C20_WitnessNoUnit ==
    /\ InPass
    /\ NoUnit(settings)
    /\ settings.inner_iterations = MaxInnerIterations
    /\ pc = "update_qmod"
    /\ Len(trace) = 2 * MaxInnerIterations
====
